---- MODULE Spec2Model ----
(***************************************************************************)
(* A model of sleekxmpp/plugins/xep_0065/proxy.py: the xep_0065 plugin     *)
(* (SOCKS5 bytestreams handshake) and its Proxy thread (relay connect,     *)
(* connected latch, listen loop, recv_size framing, send).                 *)
(*                                                                         *)
(* Eight specifications share the variables:                               *)
(*   Spec      the handshake between two plugin instances and the relay    *)
(*   SpecCall  Spec with a user thread calling send at any moment          *)
(*   SpecRecv  one connected Proxy reading a byte stream (listen/recv_size)*)
(*   SpecSend  two threads calling send on one connected Proxy             *)
(*   SpecDisco discover_proxy over every small directory                   *)
(*   SpecLive  Spec with a cooperating relay and fair threads              *)
(*   SpecOpen  Spec with a third peer that sends stanzas to the two        *)
(*   SpecDual  one plugin taking both roles while a thread calls send      *)
(***************************************************************************)
EXTENDS Integers, Sequences, FiniteSets, TLC

VARIABLES
    \* ---- the byte stream read by one Proxy (listen / recv_size)
    wire,       \* the bytes the relay hands to the socket, in order
    frames,     \* the payloads the sender framed into wire (history)
    rpos,       \* number of bytes of wire already returned by recv
    sockst,     \* "open" | "eof" | "error": what recv does once wire is drained
    lpc,        \* position of the thread in listen: "select" | "recv" | "on_recv" | "dead"
    rs,         \* the locals of recv_size
    data,       \* the value recv_size returned, about to be passed to on_recv
    delivered,  \* the frames passed to on_recv, in order
    eofReads,   \* number of recv calls that returned '' (history)
    readAt      \* rpos at each entry of recv_size (history)

VARIABLES
    \* ---- the discovery collaborator (xep_0030)
    items,      \* disco_items['disco_items']['items']: the JIDs (item[0]), in order
    info,       \* JID -> the identities its disco#info answers, in order
    \* ---- the plugin instances, one per peer
    plug,       \* peer -> the attributes of its xep_0065 object
    hs,         \* peer -> the thread running handshake()
    evt,        \* peer -> the stream's event thread, which runs the stanza handlers
    msgs,       \* the signaling stanzas in flight between peers
    sent,       \* every stanza a plugin has sent (history)
    nhs,        \* number of handshake() calls so far
    outside,    \* the stanzas a peer outside the two has sent to them (history)
    \* ---- the Proxy threads
    px,         \* the Proxy objects created so far, in order of creation
    \* ---- callers of send
    snd,        \* user thread -> its call of xep_0065.send
    sendlog     \* the send calls that have returned or raised (history)

recvVars == <<wire, frames, rpos, sockst, lpc, rs, data, delivered, eofReads, readAt>>
discoVars == <<items, info>>
envVars == <<items, info, outside>>
plugVars == <<plug, hs, evt, msgs, sent, nhs>>
sendVars == <<snd, sendlog>>
nonRecvVars == <<items, info, plug, hs, evt, msgs, sent, nhs, outside, px, snd, sendlog>>

vars == <<wire, frames, rpos, sockst, lpc, rs, data, delivered, eofReads, readAt,
          items, info, plug, hs, evt, msgs, sent, nhs, outside, px, snd, sendlog>>

-----------------------------------------------------------------------------
(* Bounds *)
MaxPayload == 3      \* longest payload of the first frame on the wire
MaxPayload2 == 1     \* longest payload of a second frame on the wire
MaxEofReads == 2     \* recv calls returning '' that are followed
MaxHandshakes == 1   \* handshake() calls in one run
MaxFrames == 1       \* frames the Proxies of a handshake run receive in all
MaxCalls == 1        \* send calls of one user thread
MaxMsgLen == 3       \* longest message passed to send
MaxItems == 3        \* longest list of discovery items
MaxOutside == 1      \* stanzas the outside peer sends in one run

-----------------------------------------------------------------------------
(* Helpers *)
Min(a, b) == IF a < b THEN a ELSE b

RECURSIVE Join(_)
\* ''.join(list): the fragments concatenated in order
Join(l) == IF l = <<>> THEN <<>> ELSE Head(l) \o Join(Tail(l))

RECURSIVE SumLen(_)
\* sum([len(i) for i in total_data])
SumLen(l) == IF l = <<>> THEN 0 ELSE Len(Head(l)) + SumLen(Tail(l))

\* struct.unpack('>i', b)[0]: four bytes, big-endian, SIGNED 32 bit
Unpack_i(b) ==
    (IF b[1] >= 128 THEN b[1] - 256 ELSE b[1]) * 16777216
        + b[2] * 65536 + b[3] * 256 + b[4]

\* The sender's side of the wire format: the length as 4 big-endian bytes
PackLen(n) ==
    << (n \div 16777216) % 256, (n \div 65536) % 256, (n \div 256) % 256, n % 256 >>

\* [4-byte big-endian length][payload]
Encode(p) == PackLen(Len(p)) \o p

\* The payload of length n used for frame k: bytes that tell position and frame apart
Payload(k, n) == [i \in 1..n |-> 16 * k + i]

-----------------------------------------------------------------------------
(* Proxy.recv_size and Proxy.listen *)

maxint == 2147483647
FirstRecvSize == 8192
RecvCap == 524288

\* lines 270-274: the locals of a fresh recv_size call
RecvSizeEntry ==
    [ total_len |-> 0, total_data |-> <<>>, size |-> maxint,
      size_data |-> <<>>, recv_size |-> FirstRecvSize ]

\* lines 278-290: the body of one loop iteration, given what recv returned
RecvSizeBody(l, sock_data) ==
    LET l1 ==
          IF l.total_data = <<>>
          THEN IF Len(sock_data) > 4
               THEN LET sd == l.size_data \o sock_data
                        sz == Unpack_i(SubSeq(sd, 1, 4))
                    IN [l EXCEPT !.size_data = sd,
                                 !.size = sz,
                                 !.recv_size = IF sz > RecvCap THEN RecvCap ELSE sz,
                                 !.total_data = Append(l.total_data,
                                                       SubSeq(sd, 5, Len(sd)))]
               ELSE [l EXCEPT !.size_data = l.size_data \o sock_data]
          ELSE [l EXCEPT !.total_data = Append(l.total_data, sock_data)]
    IN [l1 EXCEPT !.total_len = SumLen(l1.total_data)]

\* line 276 / 291: after an iteration either loop again or return the joined data
RecvSizeAfter(l) ==
    IF l.total_len < l.size
    THEN /\ lpc' = "recv"
         /\ rs' = l
         /\ data' = data
    ELSE /\ lpc' = "on_recv"
         /\ rs' = l
         /\ data' = Join(l.total_data)

\* line 262: select returns once the socket is readable (bytes, EOF or an error)
ListenSelect ==
    /\ lpc = "select"
    /\ rpos < Len(wire) \/ sockst # "open"
    /\ lpc' = "recv"
    /\ rs' = RecvSizeEntry
    /\ readAt' = Append(readAt, rpos)
    /\ UNCHANGED <<wire, frames, rpos, sockst, data, delivered, eofReads>>
    /\ UNCHANGED nonRecvVars

\* line 277 with bytes available: recv returns 1..recv_size of them
RecvBytes ==
    /\ lpc = "recv"
    /\ sockst # "error"
    /\ rpos < Len(wire)
    /\ \E k \in 1..Min(rs.recv_size, Len(wire) - rpos) :
          /\ rpos' = rpos + k
          /\ RecvSizeAfter(RecvSizeBody(rs, SubSeq(wire, rpos + 1, rpos + k)))
    /\ UNCHANGED <<wire, frames, sockst, delivered, eofReads, readAt>>
    /\ UNCHANGED nonRecvVars

\* line 277 at EOF: recv returns ''
RecvEof ==
    /\ lpc = "recv"
    /\ sockst = "eof"
    /\ rpos = Len(wire)
    /\ eofReads < MaxEofReads
    /\ eofReads' = eofReads + 1
    /\ RecvSizeAfter(RecvSizeBody(rs, <<>>))
    /\ UNCHANGED <<wire, frames, rpos, sockst, delivered, readAt>>
    /\ UNCHANGED nonRecvVars

\* line 277 on a socket error: recv raises, the exception leaves listen and run
RecvError ==
    /\ lpc = "recv"
    /\ sockst = "error"
    /\ lpc' = "dead"
    /\ UNCHANGED <<wire, frames, rpos, sockst, rs, data, delivered, eofReads, readAt>>
    /\ UNCHANGED nonRecvVars

\* ListenOnRecv with the callback left out: the frame is dropped
ListenOnRecv_drop ==
    /\ lpc = "on_recv"
    /\ lpc' = "select"
    /\ UNCHANGED <<wire, frames, rpos, sockst, rs, data, delivered, eofReads, readAt>>
    /\ UNCHANGED nonRecvVars

\* line 266: on_recv(data), then back to select
ListenOnRecv ==
    /\ lpc = "on_recv"
    /\ delivered' = Append(delivered, data)
    /\ lpc' = "select"
    /\ UNCHANGED <<wire, frames, rpos, sockst, rs, data, eofReads, readAt>>
    /\ UNCHANGED nonRecvVars

\* The relay closes the connection, having sent the first n bytes of what the
\* sender framed: once these are drained recv returns ''
SockClose ==
    /\ sockst = "open"
    /\ lpc # "dead"
    /\ sockst' = "eof"
    /\ \E n \in rpos..Len(wire) : wire' = SubSeq(wire, 1, n)
    /\ UNCHANGED <<frames, rpos, lpc, rs, data, delivered, eofReads, readAt>>
    /\ UNCHANGED nonRecvVars

\* The connection breaks: recv raises socket.error
SockError ==
    /\ sockst = "open"
    /\ lpc # "dead"
    /\ sockst' = "error"
    /\ UNCHANGED <<wire, frames, rpos, lpc, rs, data, delivered, eofReads, readAt>>
    /\ UNCHANGED nonRecvVars

-----------------------------------------------------------------------------
(* The peers, the relay and the discovery collaborator *)

Peers == {"r", "t"}
Users == {"u1", "u2"}

\* '%s' % self.xmpp.boundjid: the full JID of a peer
Jid(p) == IF p = "r" THEN "r@x/1" ELSE IF p = "t" THEN "t@x/2" ELSE "o@y/3"

None == "None"            \* Python's None
Unset == "<no attribute>" \* an attribute the object does not have yet

RelayJid == "proxy.x"
RelayHost == "10.0.0.9"
RelayPort == "7777"       \* the stanzas carry the port as a string

\* A third peer, not part of the handshake between r and t, and the relay it uses
Outsider == "o"
OutsiderRelayJid == "proxy.y"
OutsiderRelayHost == "10.0.0.7"
OutsiderRelayPort == "7778"
OutsiderSid == "o1"

\* identities are (category, type) pairs: identity[0], identity[1]
IdProxy == <<"proxy", "bytestreams">>
IdConf == <<"conference", "text">>
IdProxyHttp == <<"proxy", "http">>
IdStoreBs == <<"store", "bytestreams">>

\* A stanza, as sent (sent) and as in flight (msgs); forpx names the Proxy the
\* sending handler had waited for (history, 0 when none)
Stanza(kind, by, to, sid, jid, host, port, forpx) ==
    [ kind |-> kind, by |-> by, from |-> Jid(by), to |-> to, sid |-> sid,
      jid |-> jid, host |-> host, port |-> port, forpx |-> forpx ]

NoStanza == Stanza("none", "r", None, None, None, None, None, 0)

\* hashlib.sha1 over the bytes fed by update(), hex-encoded: an injective tag
Sha1Hex(str) == <<"sha1hex", str>>

\* uuid4().hex of the n-th handshake call
SidOf(n) == <<"s1", "s2", "s3", "s4">>[n]

-----------------------------------------------------------------------------
(* xep_0065.discover_proxy and xep_0065.handshake *)

\* lines 94-95: some identity is ('proxy', 'bytestreams')
HasProxyIdentity_first(ids) ==
    Len(ids) > 0 /\ ids[1][1] = "proxy" /\ ids[1][2] = "bytestreams"

HasProxyIdentity(ids) ==
    \E i \in 1..Len(ids) : ids[i][1] = "proxy" /\ ids[i][2] = "bytestreams"

\* self.disco.get_info(jid): the answer of the entity asked
GetInfo(jid) == [ from |-> jid, identities |-> info[jid] ]

HsIdle ==
    [ pc |-> "idle", to |-> None, explicit |-> FALSE, i |-> 0,
      queried |-> <<>>, found |-> Unset, asked |-> Unset, sid |-> None, n |-> 0 ]

\* lines 55-58: self.streamer is assigned and the address request is sent to it
\* (the caller's hs' records whom it asked)
HandshakeAsk(p, streamer) ==
    /\ plug' = [plug EXCEPT ![p].streamer = streamer]
    /\ sent' = sent \cup {Stanza("get", p, streamer, None, None, None, None, 0)}

\* line 49: handshake(to, streamer) is called
HandshakeCall(p, to, streamer) ==
    /\ hs[p].pc = "idle"
    /\ nhs < MaxHandshakes
    /\ to # p
    /\ IF streamer # None
       THEN /\ hs' = [hs EXCEPT ![p] = [HsIdle EXCEPT !.pc = "getaddr", !.to = Jid(to),
                                                      !.explicit = TRUE, !.n = nhs + 1,
                                                      !.asked = streamer]]
            /\ HandshakeAsk(p, streamer)
       ELSE /\ hs' = [hs EXCEPT ![p] = [HsIdle EXCEPT !.pc = "disco", !.to = Jid(to),
                                                      !.i = 1, !.n = nhs + 1]]
            /\ UNCHANGED <<plug, sent>>
    /\ nhs' = nhs + 1
    /\ UNCHANGED <<evt, msgs, px, snd, sendlog>>
    /\ UNCHANGED envVars
    /\ UNCHANGED recvVars

\* lines 88-97: the next item is asked for its info; a match ends the search
DiscoverStep(p) ==
    /\ hs[p].pc = "disco"
    /\ hs[p].i <= Len(items)
    /\ LET disco_info == GetInfo(items[hs[p].i])
           q == Append(hs[p].queried, items[hs[p].i])
       IN IF HasProxyIdentity(disco_info.identities)
          THEN /\ hs' = [hs EXCEPT ![p].pc = "getaddr", ![p].queried = q,
                                   ![p].found = disco_info.from,
                                   ![p].asked = disco_info.from]
               /\ HandshakeAsk(p, disco_info.from)
          ELSE /\ hs' = [hs EXCEPT ![p].i = hs[p].i + 1, ![p].queried = q]
               /\ UNCHANGED <<plug, sent>>
    /\ UNCHANGED <<evt, msgs, nhs, px, snd, sendlog>>
    /\ UNCHANGED envVars
    /\ UNCHANGED recvVars

\* line 88 exhausted: discover_proxy falls off its end and returns None
DiscoverNone(p) ==
    /\ hs[p].pc = "disco"
    /\ hs[p].i > Len(items)
    /\ hs' = [hs EXCEPT ![p].pc = "getaddr", ![p].found = None, ![p].asked = None]
    /\ HandshakeAsk(p, None)
    /\ UNCHANGED <<evt, msgs, nhs, px, snd, sendlog>>
    /\ UNCHANGED envVars
    /\ UNCHANGED recvVars

\* What an answer to the address request holds: the relay's streamhost, or no
\* streamhost (the server's error for a request that names no relay)
AddrReplies(streamer) ==
    IF streamer = RelayJid
    THEN {[host |-> RelayHost, port |-> RelayPort]}
    ELSE {[host |-> "", port |-> ""]}

\* lines 58-60: the answer arrives; its host and port are stored on the plugin
HandshakeResolve(p, reply) ==
    /\ hs[p].pc = "getaddr"
    /\ reply \in AddrReplies(hs[p].asked)
    /\ plug' = [plug EXCEPT ![p].proxy_host = reply.host,
                            ![p].proxy_port = reply.port]
    /\ hs' = [hs EXCEPT ![p].pc = "resolved"]
    /\ UNCHANGED <<evt, msgs, sent, nhs, px, snd, sendlog>>
    /\ UNCHANGED envVars
    /\ UNCHANGED recvVars

\* lines 63-76: a fresh sid; the proposal, built from what the plugin's
\* attributes hold by now, is sent to the Target
HandshakePropose(p) ==
    /\ hs[p].pc = "resolved"
    /\ LET sid == SidOf(hs[p].n)
           iq == Stanza("streamhost", p, hs[p].to, sid, plug[p].streamer,
                        plug[p].proxy_host, plug[p].proxy_port, 0)
       IN /\ hs' = [hs EXCEPT ![p].pc = "proposed", ![p].sid = sid]
          /\ msgs' = msgs \cup {iq}
          /\ sent' = sent \cup {iq}
    /\ UNCHANGED <<plug, evt, nhs, px, snd, sendlog>>
    /\ UNCHANGED envVars
    /\ UNCHANGED recvVars

\* lines 58-59: no answer came; subscripting the result raises in the caller
HandshakeTimeout(p) ==
    /\ hs[p].pc = "getaddr"
    /\ hs' = [hs EXCEPT ![p].pc = "raised"]
    /\ UNCHANGED <<plug, evt, msgs, sent, nhs, px, snd, sendlog>>
    /\ UNCHANGED envVars
    /\ UNCHANGED recvVars

\* line 76: iq.send() of the proposal returns to the caller
HandshakeReturn(p) ==
    /\ hs[p].pc \in {"proposed", "raised"}
    /\ hs' = [hs EXCEPT ![p].pc = "idle"]
    /\ UNCHANGED <<plug, evt, msgs, sent, nhs, px, snd, sendlog>>
    /\ UNCHANGED envVars
    /\ UNCHANGED recvVars

-----------------------------------------------------------------------------
(* Proxy.__init__, and the stanza handlers of xep_0065 *)

\* line 216: int(proxy_port); a string that is no number raises ValueError
PortInts == [ p \in {RelayPort, OutsiderRelayPort} |-> IF p = RelayPort THEN 7777 ELSE 7778 ]

\* The (host, port) pairs a relay listens on
Listening ==
    { <<RelayHost, PortInts[RelayPort]>>,
      <<OutsiderRelayHost, PortInts[OutsiderRelayPort]>> }
IsIntString(port) == port \in DOMAIN PortInts

\* lines 197-228: the Proxy object as constructed, its thread not yet running
NewProxy(owner, role, sid, requester, target, proxy, proxy_port) ==
    [ owner |-> owner, role |-> role, sid |-> sid, requester |-> requester,
      target |-> target, proxy |-> proxy, proxy_port |-> PortInts[proxy_port],
      pc |-> "start", s |-> "none", connected |-> FALSE, dest |-> None,
      recvd |-> 0, wrote |-> <<>> ]

\* lines 131 and 157: connected.wait() returns once the latch is set
Waited_nowait(x) == TRUE

Waited(x) == px[x].connected

\* lines 121-122: the requester is the proposal's sender, the target is this peer
StreamhostArgs(p, iq) == [ requester |-> iq.from, target |-> Jid(p) ]

\* lines 146-147 with the two swapped
UsedArgs_swapped(p, iq) == [ requester |-> iq.from, target |-> Jid(p) ]

\* lines 146-147: the requester is this peer, the target is the confirmation's sender
UsedArgs(p, iq) == [ requester |-> Jid(p), target |-> iq.from ]

\* lines 110-128: the event thread takes a proposal, records the streamhost,
\* creates and starts target_thread (or dies in Proxy.__init__) and waits
HandleStreamhost(p, iq) ==
    /\ evt[p].pc = "idle"
    /\ iq \in msgs
    /\ iq.kind = "streamhost"
    /\ iq.to = Jid(p)
    /\ msgs' = msgs \ {iq}
    /\ LET a == StreamhostArgs(p, iq)
       IN IF IsIntString(iq.port)
          THEN /\ px' = Append(px, NewProxy(p, "target", iq.sid, a.requester, a.target,
                                            iq.host, iq.port))
               /\ plug' = [plug EXCEPT ![p].streamer = iq.jid,
                                       ![p].proxy_host = iq.host,
                                       ![p].proxy_port = iq.port,
                                       ![p].target_thread = Len(px) + 1]
               /\ evt' = [evt EXCEPT ![p] = [pc |-> "wait_target", iq |-> iq,
                                             px |-> Len(px) + 1]]
          ELSE /\ plug' = [plug EXCEPT ![p].streamer = iq.jid,
                                       ![p].proxy_host = iq.host,
                                       ![p].proxy_port = iq.port]
               /\ UNCHANGED <<px, evt>>
    /\ UNCHANGED <<hs, sent, nhs, snd, sendlog>>
    /\ UNCHANGED envVars
    /\ UNCHANGED recvVars

\* lines 131-139: the wait returns; the streamhost-used reply goes to the Requester
HandleStreamhostReply(p) ==
    /\ evt[p].pc = "wait_target"
    /\ Waited(plug[p].target_thread)
    /\ LET iq == evt[p].iq
           res_iq == Stanza("streamhost-used", p, iq.from, iq.sid, plug[p].streamer,
                            None, None, evt[p].px)
       IN /\ msgs' = msgs \cup {res_iq}
          /\ sent' = sent \cup {res_iq}
    /\ evt' = [evt EXCEPT ![p] = [pc |-> "idle", iq |-> NoStanza, px |-> 0]]
    /\ UNCHANGED <<plug, hs, nhs, px, snd, sendlog>>
    /\ UNCHANGED envVars
    /\ UNCHANGED recvVars

\* lines 141-154: the event thread takes a confirmation and creates and starts
\* requester_thread; without proxy_host or proxy_port the handler raises
HandleStreamhostUsed(p, iq) ==
    /\ evt[p].pc = "idle"
    /\ iq \in msgs
    /\ iq.kind = "streamhost-used"
    /\ iq.to = Jid(p)
    /\ msgs' = msgs \ {iq}
    /\ LET a == UsedArgs(p, iq)
       IN IF plug[p].proxy_host # Unset /\ plug[p].proxy_port # Unset
             /\ IsIntString(plug[p].proxy_port)
          THEN /\ px' = Append(px, NewProxy(p, "requester", iq.sid, a.requester,
                                            a.target, plug[p].proxy_host,
                                            plug[p].proxy_port))
               /\ plug' = [plug EXCEPT ![p].requester_thread = Len(px) + 1]
               /\ evt' = [evt EXCEPT ![p] = [pc |-> "wait_requester", iq |-> iq,
                                             px |-> Len(px) + 1]]
          ELSE UNCHANGED <<px, plug, evt>>
    /\ UNCHANGED <<hs, sent, nhs, snd, sendlog>>
    /\ UNCHANGED envVars
    /\ UNCHANGED recvVars

\* HandleUsedActivate without line 157, the wait on the latch
HandleUsedActivate_nowait(p) ==
    /\ evt[p].pc = "wait_requester"
    /\ LET iq == evt[p].iq
           act_iq == Stanza("activate", p, plug[p].streamer, iq.sid,
                            UsedArgs(p, iq).target, None, None, evt[p].px)
       IN sent' = sent \cup {act_iq}
    /\ evt' = [evt EXCEPT ![p] = [pc |-> "idle", iq |-> NoStanza, px |-> 0]]
    /\ UNCHANGED <<plug, hs, msgs, nhs, px, snd, sendlog>>
    /\ UNCHANGED envVars
    /\ UNCHANGED recvVars

\* lines 157-175: the wait returns; activate is sent to self.streamer
HandleUsedActivate(p) ==
    /\ evt[p].pc = "wait_requester"
    /\ Waited(plug[p].requester_thread)
    /\ LET iq == evt[p].iq
           act_iq == Stanza("activate", p, plug[p].streamer, iq.sid,
                            UsedArgs(p, iq).target, None, None, evt[p].px)
       IN sent' = sent \cup {act_iq}
    /\ evt' = [evt EXCEPT ![p] = [pc |-> "idle", iq |-> NoStanza, px |-> 0]]
    /\ UNCHANGED <<plug, hs, msgs, nhs, px, snd, sendlog>>
    /\ UNCHANGED envVars
    /\ UNCHANGED recvVars

-----------------------------------------------------------------------------
(* Proxy.run and Proxy.listen, frame by frame *)

\* lines 235-249: the socket is created, the destination computed, connect called
ProxyRunConnect_early(x) ==
    /\ px[x].pc = "start"
    /\ px' = [px EXCEPT ![x].pc = "connect", ![x].s = "connecting",
                        ![x].connected = TRUE,
                        ![x].dest = Sha1Hex(px[x].sid \o px[x].requester \o px[x].target)]
    /\ UNCHANGED <<plug, hs, evt, msgs, sent, nhs, snd, sendlog>>
    /\ UNCHANGED envVars
    /\ UNCHANGED recvVars

ProxyRunConnect(x) ==
    /\ px[x].pc = "start"
    /\ px' = [px EXCEPT ![x].pc = "connect", ![x].s = "connecting",
                        ![x].dest = Sha1Hex(px[x].sid \o px[x].requester \o px[x].target)]
    /\ UNCHANGED <<plug, hs, evt, msgs, sent, nhs, snd, sendlog>>
    /\ UNCHANGED envVars
    /\ UNCHANGED recvVars

\* line 249 returns: the relay at (proxy, proxy_port) accepted the connect
ProxyConnectOk(x) ==
    /\ px[x].pc = "connect"
    /\ <<px[x].proxy, px[x].proxy_port>> \in Listening
    /\ px' = [px EXCEPT ![x].pc = "connected", ![x].s = "connected"]
    /\ UNCHANGED <<plug, hs, evt, msgs, sent, nhs, snd, sendlog>>
    /\ UNCHANGED envVars
    /\ UNCHANGED recvVars

\* ProxyConnectFail with connected.set() in a finally clause of run
ProxyConnectFail_setlatch(x) ==
    /\ px[x].pc = "connect"
    /\ px' = [px EXCEPT ![x].pc = "dead", ![x].s = "failed", ![x].connected = TRUE]
    /\ UNCHANGED <<plug, hs, evt, msgs, sent, nhs, snd, sendlog>>
    /\ UNCHANGED envVars
    /\ UNCHANGED recvVars

\* line 249 raises: unreachable or refusing relay; the exception ends the thread
ProxyConnectFail(x) ==
    /\ px[x].pc = "connect"
    /\ px' = [px EXCEPT ![x].pc = "dead", ![x].s = "failed"]
    /\ UNCHANGED <<plug, hs, evt, msgs, sent, nhs, snd, sendlog>>
    /\ UNCHANGED envVars
    /\ UNCHANGED recvVars

\* ProxySetConnected with line 251 left out: listen is entered, the latch stays unset
ProxySetConnected_noset(x) ==
    /\ px[x].pc = "connected"
    /\ px' = [px EXCEPT ![x].pc = "listen"]
    /\ UNCHANGED <<plug, hs, evt, msgs, sent, nhs, snd, sendlog>>
    /\ UNCHANGED envVars
    /\ UNCHANGED recvVars

\* lines 250-254: connected.set(), then listen is entered
ProxySetConnected(x) ==
    /\ px[x].pc = "connected"
    /\ px' = [px EXCEPT ![x].pc = "listen", ![x].connected = TRUE]
    /\ UNCHANGED <<plug, hs, evt, msgs, sent, nhs, snd, sendlog>>
    /\ UNCHANGED envVars
    /\ UNCHANGED recvVars

RECURSIVE SumRecvd(_)
SumRecvd(l) ==
    IF l = <<>> THEN 0
    ELSE Head(l).recvd + (IF Head(l).pc = "on_recv" THEN 1 ELSE 0) + SumRecvd(Tail(l))

\* The frames recv_size has returned so far, over all Proxies
FramesRead == SumRecvd(px)

\* lines 262-265: select returns and recv_size returns a frame
ProxyListenRecv(x) ==
    /\ px[x].pc = "listen"
    /\ FramesRead < MaxFrames
    /\ px' = [px EXCEPT ![x].pc = "on_recv"]
    /\ UNCHANGED <<plug, hs, evt, msgs, sent, nhs, snd, sendlog>>
    /\ UNCHANGED envVars
    /\ UNCHANGED recvVars

\* line 266: on_recv(data)
ProxyOnRecv(x) ==
    /\ px[x].pc = "on_recv"
    /\ px' = [px EXCEPT ![x].pc = "listen", ![x].recvd = px[x].recvd + 1]
    /\ UNCHANGED <<plug, hs, evt, msgs, sent, nhs, snd, sendlog>>
    /\ UNCHANGED envVars
    /\ UNCHANGED recvVars

-----------------------------------------------------------------------------
(* xep_0065.send and Proxy.send *)

SndIdle == [ pc |-> "idle", peer |-> "r", px |-> 0, msg |-> <<>>, off |-> 0,
             via |-> "none", s |-> "none", calls |-> 0 ]

\* lines 183-186 with the two tests in the other order
SendTarget_targetfirst(p) ==
    IF plug[p].target_thread # 0 THEN plug[p].target_thread
    ELSE IF plug[p].requester_thread # 0 THEN plug[p].requester_thread
    ELSE 0

\* lines 183-186: requester_thread if the plugin has one, else target_thread, else
\* nothing (0)
SendTarget(p) ==
    IF plug[p].requester_thread # 0 THEN plug[p].requester_thread
    ELSE IF plug[p].target_thread # 0 THEN plug[p].target_thread
    ELSE 0

SendVia(p) ==
    IF plug[p].requester_thread # 0 THEN "requester"
    ELSE IF plug[p].target_thread # 0 THEN "target"
    ELSE "none"

\* One finished call of send: where it went, the socket it met, how it ended
SendRecord(u, p, x, via, sk, msg, outcome, n) ==
    [ by |-> u, peer |-> p, px |-> x, via |-> via, s |-> sk, msg |-> msg,
      outcome |-> outcome, written |-> n ]

\* lines 177-186 and 293-297 up to the first write: the call returns without a
\* Proxy, raises (no socket attribute yet, or a socket that is not connected), or
\* enters sendall; on a socket whose connect is in progress either may happen
PluginSend(u, p, msg) ==
    /\ snd[u].pc = "idle"
    /\ snd[u].calls < MaxCalls
    /\ LET x == SendTarget(p)
           via == SendVia(p)
           sk == IF x = 0 THEN "nosession" ELSE px[x].s
           finish(outcome) ==
               /\ sendlog' = Append(sendlog, SendRecord(u, p, x, via, sk, msg, outcome, 0))
               /\ snd' = [snd EXCEPT ![u].calls = snd[u].calls + 1]
           enter ==
               /\ snd' = [snd EXCEPT ![u] = [pc |-> "sendall", peer |-> p, px |-> x,
                                             msg |-> msg, off |-> 0, via |-> via,
                                             s |-> sk, calls |-> snd[u].calls + 1]]
               /\ UNCHANGED sendlog
       IN \/ x = 0 /\ finish("returned")
          \/ x # 0 /\ sk = "none" /\ finish("AttributeError")
          \/ x # 0 /\ sk \in {"connecting", "failed"} /\ finish("socket.error")
          \/ x # 0 /\ sk \in {"connecting", "connected"} /\ enter
    /\ UNCHANGED <<plug, hs, evt, msgs, sent, nhs, px>>
    /\ UNCHANGED envVars
    /\ UNCHANGED recvVars

\* line 297: sendall writes the rest of msg in one or more socket writes
SendallWrite(u) ==
    /\ snd[u].pc = "sendall"
    /\ \E k \in 1..(Len(snd[u].msg) - snd[u].off) :
          LET x == snd[u].px
              off == snd[u].off + k
          IN /\ px' = [px EXCEPT ![x].wrote =
                          px[x].wrote \o SubSeq(snd[u].msg, snd[u].off + 1, off)]
             /\ IF off = Len(snd[u].msg)
                THEN /\ snd' = [snd EXCEPT ![u] = [SndIdle EXCEPT !.calls = snd[u].calls]]
                     /\ sendlog' = Append(sendlog,
                            SendRecord(u, snd[u].peer, x, snd[u].via, snd[u].s,
                                       snd[u].msg, "returned", off))
                ELSE /\ snd' = [snd EXCEPT ![u].off = off]
                     /\ UNCHANGED sendlog
    /\ UNCHANGED <<plug, hs, evt, msgs, sent, nhs>>
    /\ UNCHANGED envVars
    /\ UNCHANGED recvVars

-----------------------------------------------------------------------------
(* Initial states and specifications *)

JidPool == {"conf.x", RelayJid, "proxy2.x"}
IdLists == { <<>>, <<IdProxy>>, <<IdConf, IdProxy>>, <<IdProxyHttp>>,
             <<IdStoreBs, IdProxyHttp>> }

SeqsUpTo(S, n) == UNION { [1..k -> S] : k \in 0..n }

\* A server that lists the relay second, and one that lists no relay
DirWithRelay ==
    [ items |-> <<"conf.x", RelayJid>>,
      info |-> [ j \in JidPool |-> IF j = RelayJid THEN <<IdConf, IdProxy>>
                                                  ELSE <<IdConf>> ] ]
DirWithoutRelay ==
    [ items |-> <<"conf.x">>,
      info |-> [ j \in JidPool |-> <<IdConf>> ] ]

\* No byte stream: the recv variables of a run that does not read one
InitNoWire ==
    /\ frames = <<>>
    /\ wire = <<>>
    /\ rpos = 0
    /\ sockst = "open"
    /\ lpc = "select"
    /\ rs = RecvSizeEntry
    /\ data = <<>>
    /\ delivered = <<>>
    /\ eofReads = 0
    /\ readAt = <<>>

\* plugin_init: no streamhost known, no Proxy, nothing in flight
InitPlug ==
    /\ plug = [ p \in Peers |-> [ streamer |-> Unset, proxy_host |-> Unset,
                                  proxy_port |-> Unset, target_thread |-> 0,
                                  requester_thread |-> 0 ] ]
    /\ hs = [ p \in Peers |-> HsIdle ]
    /\ evt = [ p \in Peers |-> [ pc |-> "idle", iq |-> NoStanza, px |-> 0 ] ]
    /\ msgs = {}
    /\ sent = {}
    /\ nhs = 0
    /\ outside = {}
    /\ px = <<>>
    /\ snd = [ u \in Users |-> SndIdle ]
    /\ sendlog = <<>>

Init ==
    /\ \E d \in {DirWithRelay, DirWithoutRelay} : items = d.items /\ info = d.info
    /\ InitPlug
    /\ InitNoWire

Next ==
    \/ \E p \in Peers, to \in Peers, st \in {None, RelayJid} : HandshakeCall(p, to, st)
    \/ \E p \in Peers : DiscoverStep(p)
    \/ \E p \in Peers : DiscoverNone(p)
    \/ \E p \in Peers : \E reply \in AddrReplies(hs[p].asked) :
          HandshakeResolve(p, reply)
    \/ \E p \in Peers : HandshakePropose(p)
    \/ \E p \in Peers : HandshakeTimeout(p)
    \/ \E p \in Peers : HandshakeReturn(p)
    \/ \E p \in Peers : \E iq \in msgs : HandleStreamhost(p, iq)
    \/ \E p \in Peers : HandleStreamhostReply(p)
    \/ \E p \in Peers : \E iq \in msgs : HandleStreamhostUsed(p, iq)
    \/ \E p \in Peers : HandleUsedActivate(p)
    \/ \E x \in 1..Len(px) : ProxyRunConnect(x)
    \/ \E x \in 1..Len(px) : ProxyConnectOk(x)
    \/ \E x \in 1..Len(px) : ProxyConnectFail(x)
    \/ \E x \in 1..Len(px) : ProxySetConnected(x)
    \/ \E x \in 1..Len(px) : ProxyListenRecv(x)
    \/ \E x \in 1..Len(px) : ProxyOnRecv(x)

Spec == Init /\ [][Next]_vars

\* What the outside peer may send to p: a proposal of its own, naming its own
\* relay (handled by _handle_streamhost), or a streamhost-used that answers no
\* proposal of p (handled by _handle_streamhost_used)
OutsideStanzas(p) ==
    { Stanza("streamhost", Outsider, Jid(p), OutsiderSid, OutsiderRelayJid,
             OutsiderRelayHost, OutsiderRelayPort, 0),
      Stanza("streamhost-used", Outsider, Jid(p), OutsiderSid, OutsiderRelayJid,
             None, None, 0) }

\* The outside peer sends a stanza to p
OutsideSend(p, iq) ==
    /\ Cardinality(outside) < MaxOutside
    /\ iq \in OutsideStanzas(p)
    /\ iq \notin outside
    /\ outside' = outside \cup {iq}
    /\ msgs' = msgs \cup {iq}
    /\ UNCHANGED <<plug, hs, evt, sent, nhs, px, snd, sendlog>>
    /\ UNCHANGED discoVars
    /\ UNCHANGED recvVars

\* The handshake on a stream that other peers can reach as well
NextOpen ==
    \/ Next
    \/ \E p \in Peers : \E iq \in OutsideStanzas(p) : OutsideSend(p, iq)

SpecOpen == Init /\ [][NextOpen]_vars

\* The handshake in an environment that cooperates: the directory lists the
\* relay, the address request is answered (no timeout) and the relay accepts
\* every connect
InitLive ==
    /\ items = DirWithRelay.items /\ info = DirWithRelay.info
    /\ InitPlug
    /\ InitNoWire

NextLive ==
    \/ \E p \in Peers, to \in Peers, st \in {None, RelayJid} : HandshakeCall(p, to, st)
    \/ \E p \in Peers : DiscoverStep(p)
    \/ \E p \in Peers : \E reply \in AddrReplies(hs[p].asked) :
          HandshakeResolve(p, reply)
    \/ \E p \in Peers : HandshakePropose(p)
    \/ \E p \in Peers : HandshakeReturn(p)
    \/ \E p \in Peers : \E iq \in msgs : HandleStreamhost(p, iq)
    \/ \E p \in Peers : HandleStreamhostReply(p)
    \/ \E p \in Peers : \E iq \in msgs : HandleStreamhostUsed(p, iq)
    \/ \E p \in Peers : HandleUsedActivate(p)
    \/ \E x \in 1..Len(px) : ProxyRunConnect(x)
    \/ \E x \in 1..Len(px) : ProxyConnectOk(x)
    \/ \E x \in 1..Len(px) : ProxySetConnected(x)
    \/ \E x \in 1..Len(px) : ProxyListenRecv(x)
    \/ \E x \in 1..Len(px) : ProxyOnRecv(x)

\* The thread that called handshake runs on: discovery, the answer to the
\* address request, the proposal
CallerStep(p) ==
    \/ DiscoverStep(p)
    \/ \E reply \in AddrReplies(hs[p].asked) : HandshakeResolve(p, reply)
    \/ HandshakePropose(p)
    \/ HandshakeReturn(p)

\* The event thread of p runs on: it takes a delivered stanza, or leaves its wait
EventStep(p) ==
    \/ \E iq \in msgs : HandleStreamhost(p, iq)
    \/ HandleStreamhostReply(p)
    \/ \E iq \in msgs : HandleStreamhostUsed(p, iq)
    \/ HandleUsedActivate(p)

\* The thread of Proxy x runs on up to its receive loop
ProxyStep(x) ==
    /\ x \in 1..Len(px)
    /\ ProxyRunConnect(x) \/ ProxyConnectOk(x) \/ ProxySetConnected(x)

\* Every thread that can take a step eventually takes one (each is a thread of
\* its own under the operating system's scheduler), and a stanza in msgs stays
\* deliverable until its handler has taken it
Fairness ==
    /\ \A p \in Peers : WF_vars(CallerStep(p)) /\ WF_vars(EventStep(p))
    /\ \A x \in 1..(2 * MaxHandshakes) : WF_vars(ProxyStep(x))

SpecLive == InitLive /\ [][NextLive]_vars /\ Fairness

\* The handshake with a user thread that calls send on either plugin at any moment
NextCall ==
    \/ Next
    \/ \E p \in Peers : PluginSend("u1", p, <<65>>)
    \/ SendallWrite("u1")

SpecCall == Init /\ [][NextCall]_vars

\* discover_proxy alone: every directory of up to MaxItems items
InitDisco ==
    /\ items \in SeqsUpTo(JidPool, MaxItems)
    /\ info \in [JidPool -> IdLists]
    /\ InitPlug
    /\ InitNoWire

NextDisco ==
    \/ \E p \in Peers, to \in Peers : HandshakeCall(p, to, None)
    \/ \E p \in Peers : DiscoverStep(p)
    \/ \E p \in Peers : DiscoverNone(p)

SpecDisco == InitDisco /\ [][NextDisco]_vars

\* After one handshake from r to t with the relay named by the caller: t's
\* target_thread is connected and listening, its confirmation is on its way
ProposalRT == Stanza("streamhost", "r", Jid("t"), SidOf(1), RelayJid, RelayHost, RelayPort, 0)
ConfirmTR == Stanza("streamhost-used", "t", Jid("r"), SidOf(1), RelayJid, None, None, 1)

InitSend ==
    /\ items = DirWithRelay.items
    /\ info = DirWithRelay.info
    /\ InitNoWire
    /\ plug = [ p \in Peers |->
                  [ streamer |-> RelayJid, proxy_host |-> RelayHost,
                    proxy_port |-> RelayPort,
                    target_thread |-> IF p = "t" THEN 1 ELSE 0,
                    requester_thread |-> 0 ] ]
    /\ hs = [ p \in Peers |->
                IF p = "r"
                THEN [HsIdle EXCEPT !.pc = "proposed", !.to = Jid("t"), !.explicit = TRUE,
                                    !.asked = RelayJid, !.sid = SidOf(1), !.n = 1]
                ELSE HsIdle ]
    /\ evt = [ p \in Peers |-> [ pc |-> "idle", iq |-> NoStanza, px |-> 0 ] ]
    /\ msgs = {ConfirmTR}
    /\ sent = {Stanza("get", "r", RelayJid, None, None, None, None, 0), ProposalRT, ConfirmTR}
    /\ nhs = 1
    /\ outside = {}
    /\ px = << [ NewProxy("t", "target", SidOf(1), Jid("r"), Jid("t"), RelayHost, RelayPort)
                   EXCEPT !.pc = "listen", !.s = "connected", !.connected = TRUE,
                          !.dest = Sha1Hex(SidOf(1) \o Jid("r") \o Jid("t")) ] >>
    /\ snd = [ u \in Users |-> SndIdle ]
    /\ sendlog = <<>>

\* The bytes thread u passes to send: its own, so that the wire tells the calls apart
UserNo(u) == IF u = "u1" THEN 1 ELSE 2
SendMsgs(u) == { Payload(UserNo(u), n) : n \in 1..MaxMsgLen }

NextSend ==
    \/ \E u \in Users : \E msg \in SendMsgs(u) : PluginSend(u, "t", msg)
    \/ \E u \in Users : SendallWrite(u)

SpecSend == InitSend /\ [][NextSend]_vars

\* The proposal of the outside peer to r
ProposalOR ==
    Stanza("streamhost", Outsider, Jid("r"), OutsiderSid, OutsiderRelayJid,
           OutsiderRelayHost, OutsiderRelayPort, 0)

\* A plugin about to hold both roles: r has proposed to t and t has confirmed
\* (the state of InitSend), and the outside peer's proposal to r is in flight
\* as well; r's event thread takes the two stanzas in either order
InitDual ==
    /\ items = DirWithRelay.items
    /\ info = DirWithRelay.info
    /\ InitNoWire
    /\ plug = [ p \in Peers |->
                  [ streamer |-> RelayJid, proxy_host |-> RelayHost,
                    proxy_port |-> RelayPort,
                    target_thread |-> IF p = "t" THEN 1 ELSE 0,
                    requester_thread |-> 0 ] ]
    /\ hs = [ p \in Peers |->
                IF p = "r"
                THEN [HsIdle EXCEPT !.pc = "proposed", !.to = Jid("t"), !.explicit = TRUE,
                                    !.asked = RelayJid, !.sid = SidOf(1), !.n = 1]
                ELSE HsIdle ]
    /\ evt = [ p \in Peers |-> [ pc |-> "idle", iq |-> NoStanza, px |-> 0 ] ]
    /\ msgs = {ConfirmTR, ProposalOR}
    /\ sent = {Stanza("get", "r", RelayJid, None, None, None, None, 0), ProposalRT, ConfirmTR}
    /\ nhs = 1
    /\ outside = {ProposalOR}
    /\ px = << [ NewProxy("t", "target", SidOf(1), Jid("r"), Jid("t"), RelayHost, RelayPort)
                   EXCEPT !.pc = "listen", !.s = "connected", !.connected = TRUE,
                          !.dest = Sha1Hex(SidOf(1) \o Jid("r") \o Jid("t")) ] >>
    /\ snd = [ u \in Users |-> SndIdle ]
    /\ sendlog = <<>>

NextDual ==
    \/ \E p \in Peers : \E iq \in msgs : HandleStreamhost(p, iq)
    \/ \E p \in Peers : HandleStreamhostReply(p)
    \/ \E p \in Peers : \E iq \in msgs : HandleStreamhostUsed(p, iq)
    \/ \E p \in Peers : HandleUsedActivate(p)
    \/ \E x \in 1..Len(px) : ProxyRunConnect(x)
    \/ \E x \in 1..Len(px) : ProxyConnectOk(x)
    \/ \E x \in 1..Len(px) : ProxyConnectFail(x)
    \/ \E x \in 1..Len(px) : ProxySetConnected(x)
    \/ \E x \in 1..Len(px) : ProxyListenRecv(x)
    \/ \E x \in 1..Len(px) : ProxyOnRecv(x)
    \/ \E msg \in SendMsgs("u1") : PluginSend("u1", "r", msg)
    \/ SendallWrite("u1")

SpecDual == InitDual /\ [][NextDual]_vars

\* The byte streams: one frame, or two frames back to back
Wires ==
    { <<Payload(1, n)>> : n \in 0..MaxPayload }
        \cup { <<Payload(1, n), Payload(2, m)>> : n \in 0..MaxPayload, m \in 0..MaxPayload2 }

WireOf(fs) == IF Len(fs) = 1 THEN Encode(fs[1]) ELSE Encode(fs[1]) \o Encode(fs[2])

\* The start of a frame whose declared length has the top bit set (N = 2^31):
\* the prefix 80 00 00 00 and the first payload bytes, all the relay has
\* forwarded so far. No complete frame of the sender is on this wire.
HugeFrameStart == <<128, 0, 0, 0>> \o Payload(1, MaxPayload)

InitRecv ==
    /\ \/ frames \in Wires /\ wire = WireOf(frames)
       \/ frames = <<>> /\ wire = HugeFrameStart
    /\ rpos = 0
    /\ sockst = "open"
    /\ lpc = "select"
    /\ rs = RecvSizeEntry
    /\ data = <<>>
    /\ delivered = <<>>
    /\ eofReads = 0
    /\ readAt = <<>>
    /\ items = DirWithRelay.items
    /\ info = DirWithRelay.info
    /\ InitPlug

NextRecv ==
    \/ ListenSelect
    \/ RecvBytes
    \/ RecvEof
    \/ RecvError
    \/ ListenOnRecv
    \/ SockClose
    \/ SockError

SpecRecv == InitRecv /\ [][NextRecv]_vars

\* Everything recv_size has returned so far, in order
Returned == IF lpc = "on_recv" THEN Append(delivered, data) ELSE delivered

-----------------------------------------------------------------------------
(* The claims *)

\* The proposal a Proxy's session id belongs to
ProposalsOf(x) == { m \in sent : m.kind = "streamhost" /\ m.sid = px[x].sid }

\* C1: in a handshake between Requester R and Target T with session id S, the
\* destination the Target-role Proxy computes equals the one the Requester-role
\* Proxy computes: both are the digest of S, then R's address, then T's address.
C1_SameDestination ==
    /\ \A x \in 1..Len(px) : \A m \in ProposalsOf(x) :
          px[x].dest # None => px[x].dest = Sha1Hex(m.sid \o Jid(m.by) \o m.to)
    /\ \A x, y \in 1..Len(px) :
          (/\ px[x].role = "target" /\ px[y].role = "requester"
           /\ px[x].sid = px[y].sid
           /\ px[x].dest # None /\ px[y].dest # None)
          => px[x].dest = px[y].dest

\* Both legs of one handshake have computed their destination
C1_Witness ==
    \E x, y \in 1..Len(px) :
       /\ px[x].role = "target" /\ px[y].role = "requester"
       /\ px[x].sid = px[y].sid /\ px[x].owner # px[y].owner
       /\ ProposalsOf(x) # {}
       /\ px[x].dest # None /\ px[y].dest # None

\* C2: for every payload of length N >= 0, once the bytes
\* [4-byte length N][payload] have been handed to recv_size, in whatever split,
\* one call of recv_size has returned exactly that payload.
C2_RoundTrip ==
    (Len(frames) = 1 /\ rpos = Len(WireOf(frames))) => Returned = <<frames[1]>>

\* C3: the connected latch is set only after connect has returned, and a frame is
\* read or passed to on_recv only after the latch is set.
C3_LatchOrder ==
    \A x \in 1..Len(px) :
       /\ px[x].connected => px[x].s = "connected"
       /\ (px[x].pc = "on_recv" \/ px[x].recvd > 0) => px[x].connected

\* A Proxy has passed a frame to on_recv
C3_Witness == \E x \in 1..Len(px) : px[x].recvd > 0 /\ px[x].connected

\* The confirmations and activations sent by the handler that waited for Proxy x
SentFor(x) ==
    { m \in sent : m.forpx = x /\ m.kind \in {"streamhost-used", "activate"} }

\* C4: if the relay connect of a Proxy fails, its connected latch is never set
\* and neither the streamhost-used confirmation nor activate is sent for it.
C4_FailedConnectSendsNothing ==
    \A x \in 1..Len(px) :
       px[x].s = "failed" => ~px[x].connected /\ SentFor(x) = {}

\* A Requester-role Proxy whose connect failed, after the Target confirmed
C4_Witness ==
    \E x \in 1..Len(px) :
       /\ px[x].s = "failed" /\ px[x].role = "requester"
       /\ evt[px[x].owner].pc = "wait_requester"
       /\ \E y \in 1..Len(px) : SentFor(y) # {}

\* The places on Proxy x's wire of the bytes written by the call of user k
WirePlaces(x, k) == { i \in 1..Len(px[x].wrote) : px[x].wrote[i] \div 16 = k }

Contiguous(S) == \A i, j \in S : \A m \in i..j : m \in S

\* C5: with two send calls in progress on one Proxy from different threads, the
\* bytes of each call are one contiguous block of the wire.
C5_NoInterleaving ==
    \A x \in 1..Len(px) : \A k \in {1, 2} : Contiguous(WirePlaces(x, k))

\* C6: a send call made before the relay connect of the local Proxy has
\* completed is rejected with an error (nothing is ever queued): it never
\* returns normally.
C6_EarlySendRejected ==
    \A i \in 1..Len(sendlog) :
       sendlog[i].s # "connected"
          => sendlog[i].outcome \in {"AttributeError", "socket.error"}

\* C7: when handshake runs without a streamer and discover_proxy finds no relay,
\* no relay-address request and no proposal is sent for that handshake.
C7_DiscoveryFailureIsTerminal ==
    \A p \in Peers :
       hs[p].found = None =>
          ~ \E m \in sent :
               /\ m.by = p
               /\ \/ m.kind = "get" /\ m.to = None
                  \/ m.kind = "streamhost" /\ m.sid = SidOf(hs[p].n)

\* The identity list of a JID holds ('proxy', 'bytestreams') somewhere
IsRelay(jid) == \E i \in DOMAIN info[jid] : info[jid][i] = IdProxy

\* The place in items of the first relay, 0 when there is none
FirstRelay ==
    IF \E i \in 1..Len(items) : IsRelay(items[i])
    THEN CHOOSE i \in 1..Len(items) :
            IsRelay(items[i]) /\ \A j \in 1..(i - 1) : ~IsRelay(items[j])
    ELSE 0

\* C8: discover_proxy returns the first item in list order that has an identity
\* ('proxy', 'bytestreams') at any place of its identity list (None when there
\* is none), and has asked exactly the items up to and including that one.
C8_FirstRelayWins ==
    \A p \in Peers :
       (hs[p].pc = "getaddr" /\ ~hs[p].explicit) =>
          /\ hs[p].found = (IF FirstRelay = 0 THEN None ELSE items[FirstRelay])
          /\ plug[p].streamer = hs[p].found
          /\ hs[p].queried =
                SubSeq(items, 1, IF FirstRelay = 0 THEN Len(items) ELSE FirstRelay)

\* A relay found behind a skipped item, by an identity that is not its first,
\* with another relay after it that was not asked
C8_Witness ==
    \E p \in Peers :
       /\ hs[p].pc = "getaddr" /\ ~hs[p].explicit
       /\ FirstRelay = 2 /\ Len(items) = 3
       /\ IsRelay(items[3]) /\ items[3] # items[2]
       /\ hs[p].found = items[2]
       /\ info[items[2]][1] # IdProxy
       /\ Len(hs[p].queried) = 2

\* C9: once a read has returned zero bytes (EOF), recv_size has failed and the
\* receive loop is over: it neither returns nor keeps looping.
C9_EofEndsLoop == eofReads > 0 => lpc = "dead"

\* The event thread of p leaves its wait on the connected latch
LeaveWait(p) == HandleStreamhostReply(p) \/ HandleUsedActivate(p)

\* C10: after the connect of the Proxy a handler waits for has failed, the
\* handler can leave its wait: it does not stay blocked on the latch.
C10_FailureEndsWait ==
    \A p \in Peers :
       (evt[p].pc \in {"wait_target", "wait_requester"} /\ px[evt[p].px].s = "failed")
          => ENABLED LeaveWait(p)

\* The wire place where frame k of the sender ends
FrameEnd(k) == IF k = 1 THEN Len(Encode(frames[1])) ELSE Len(WireOf(frames))

\* C11: one invocation of recv_size never consumes bytes of the following
\* frame: with two frames on the wire the first invocation reads no further than
\* the end of the first frame, returns exactly its payload, and the second
\* invocation starts at the length prefix of the second frame.
C11_NoOverRead ==
    Len(frames) = 2 =>
       /\ Len(readAt) = 1 => rpos <= FrameEnd(1)
       /\ Len(Returned) >= 1 => Returned[1] = frames[1]
       /\ Len(readAt) >= 2 => readAt[2] = FrameEnd(1)

\* One step of the receive loop as on_recv sees it
C15_Step ==
    /\ delivered' # delivered =>
          lpc = "on_recv" /\ delivered' = Append(delivered, data) /\ lpc' = "select"
    /\ lpc = "on_recv" =>
          /\ rpos' = rpos /\ data' = data
          /\ lpc' # "on_recv" => delivered' = Append(delivered, data)
    /\ (lpc # "on_recv" /\ lpc' = "on_recv") => (lpc = "recv" /\ delivered' = delivered)
    /\ (lpc = "select" /\ lpc' # "select") => lpc' = "recv"

\* C15: the receive loop hands what recv_size returns to on_recv one value at a
\* time, in the order returned, each exactly once: on_recv gets exactly the value
\* just returned, and nothing is read from the socket between the return of
\* recv_size and the return of on_recv.
C15_SynchronousDelivery == [][C15_Step]_vars

\* Two frames were read and both were delivered, in wire order
C15_Witness == Len(delivered) = 2 /\ delivered = frames /\ lpc = "select"

\* C16: recv_size parses the length prefix as soon as the bytes accumulated over
\* its reads number at least 5, whatever the size of each read: between two
\* reads of an invocation the prefix is unparsed only while fewer than 5 bytes
\* are accumulated, and once parsed the prefix is the first 4 accumulated bytes
\* and the rest of them is the first payload fragment.
C16_ParseAtFive ==
    /\ (lpc = "recv" /\ rs.total_data = <<>>) => Len(rs.size_data) < 5
    /\ (lpc \in {"recv", "on_recv"} /\ rs.total_data # <<>>) =>
          /\ rs.size = Unpack_i(SubSeq(rs.size_data, 1, 4))
          /\ rs.total_data[1] = SubSeq(rs.size_data, 5, Len(rs.size_data))

\* C18: the length prefix is read as an unsigned 32-bit number: the parsed
\* length is never negative, and for a prefix whose top bit is set (N >= 2^31,
\* more than any wire here holds) recv_size keeps reading instead of returning.
C18_UnsignedPrefix ==
    (lpc \in {"recv", "on_recv"} /\ rs.total_data # <<>>) =>
       /\ rs.size >= 0
       /\ rs.size_data[1] >= 128 => lpc = "recv"

\* Proxy x has set its latch and its socket is connected to the relay
LegConnected(x) == px[x].connected /\ px[x].s = "connected"

\* C12: a streamhost-used confirmation has been sent only if the Target-role
\* Proxy its handler created for that proposal has set its connected latch and
\* is connected to the relay.
C12_ConfirmAfterLatch ==
    \A m \in sent :
       m.kind = "streamhost-used" =>
          /\ px[m.forpx].role = "target"
          /\ px[m.forpx].owner = m.by
          /\ px[m.forpx].sid = m.sid
          /\ LegConnected(m.forpx)

\* A Target has confirmed and its Proxy is in its receive loop
C12_Witness ==
    \E m \in sent : m.kind = "streamhost-used" /\ px[m.forpx].pc = "listen"

\* The confirmations a peer has received for the session id of Proxy y
ConfirmationsFor(y) ==
    { c \in sent \ msgs : /\ c.kind = "streamhost-used"
                          /\ c.sid = px[y].sid
                          /\ c.to = Jid(px[y].owner) }

\* C13: a Requester-role Proxy exists only once the Target's confirmation for its
\* session id has been received; activate has been sent only if that Proxy has
\* set its latch; so whenever activate has been sent, the Requester's leg and
\* the leg of the Target that confirmed are both connected to the relay.
C13_ActivateAfterBothLegs ==
    /\ \A y \in 1..Len(px) :
          px[y].role = "requester" => ConfirmationsFor(y) # {}
    /\ \A m \in sent :
          m.kind = "activate" =>
             /\ px[m.forpx].role = "requester"
             /\ px[m.forpx].owner = m.by
             /\ px[m.forpx].sid = m.sid
             /\ LegConnected(m.forpx)
             /\ \A c \in ConfirmationsFor(m.forpx) :
                   px[c.forpx].role = "target" /\ LegConnected(c.forpx)

\* activate has been sent for a confirmed handshake
C13_Witness ==
    \E m \in sent : m.kind = "activate" /\ ConfirmationsFor(m.forpx) # {}

\* Handshake n has reached CircuitActive on both sides
BothActive(n) ==
    /\ \E c \in sent : c.kind = "streamhost-used" /\ c.sid = SidOf(n)
    /\ \E a \in sent : a.kind = "activate" /\ a.sid = SidOf(n)

\* C14: with a relay in the directory (or named by the caller), the address
\* request answered, every connect accepted and every stanza delivered, fair
\* scheduling of the threads leads every handshake that was called to the point
\* where the Target has sent its confirmation and the Requester has sent
\* activate.
C14_HandshakeCompletes ==
    \A n \in 1..MaxHandshakes : (nhs >= n) ~> BothActive(n)

\* A handshake that went through discovery has reached CircuitActive
C14_Witness ==
    /\ BothActive(1)
    /\ \E p \in Peers : hs[p].n = 1 /\ ~hs[p].explicit /\ hs[p].found = RelayJid
    /\ \A p \in Peers : evt[p].pc = "idle"

\* The proposals peer p has sent with session id sid
OwnProposals(p, sid) ==
    { m \in sent : m.kind = "streamhost" /\ m.by = p /\ m.sid = sid }

\* C17: the relay endpoint of a Requester is fixed for the whole handshake: its
\* Proxy connects to the host and port of its own proposal and activate goes to
\* the relay JID of that proposal, also when a proposal of another peer is
\* handled on the same plugin in between.
C17_EndpointFixed ==
    /\ \A y \in 1..Len(px) :
          px[y].role = "requester" =>
             \A m \in OwnProposals(px[y].owner, px[y].sid) :
                /\ px[y].proxy = m.host
                /\ IsIntString(m.port) /\ px[y].proxy_port = PortInts[m.port]
    /\ \A a \in sent :
          a.kind = "activate" =>
             \A m \in OwnProposals(a.by, a.sid) : a.to = m.jid

\* C19: a Requester-role Proxy is created, and activate is sent, only for a
\* session id this peer has proposed itself: a streamhost-used with any other
\* session id starts no Proxy and sends no activate.
C19_OnlyOwnSid ==
    /\ \A y \in 1..Len(px) :
          px[y].role = "requester" => OwnProposals(px[y].owner, px[y].sid) # {}
    /\ \A a \in sent :
          a.kind = "activate" => OwnProposals(a.by, a.sid) # {}

\* The Proxies of a role that exist on the plugin of p, and the newest of a set
RolePx(p, role) == { y \in 1..Len(px) : px[y].owner = p /\ px[y].role = role }
Newest(S) == CHOOSE y \in S : \A z \in S : z <= y

\* Where a send called now on the plugin of p has to go
Expected(p) ==
    IF RolePx(p, "requester") # {} THEN Newest(RolePx(p, "requester"))
    ELSE IF RolePx(p, "target") # {} THEN Newest(RolePx(p, "target"))
    ELSE 0

\* One step as the Sessions' sockets see it
C20_Step ==
    /\ \A u \in Users :
          (snd[u].pc = "idle" /\ snd'[u].pc = "sendall") =>
             snd'[u].px = Expected(snd'[u].peer)
    /\ Len(sendlog') > Len(sendlog) =>
          LET e == sendlog'[Len(sendlog')]
          IN e.written = 0 => e.px = Expected(e.peer)
    /\ \A x \in 1..Len(px) :
          px'[x].wrote # px[x].wrote =>
             /\ \E u \in Users : snd[u].pc = "sendall" /\ snd[u].px = x
             /\ \A y \in (1..Len(px)) \ {x} : px'[y].wrote = px[y].wrote

C20_TargetUntouched ==
    \A x \in 1..Len(px) :
       (px'[x].wrote # px[x].wrote /\ px[x].role = "target") =>
          RolePx(px[x].owner, "requester") = {}

====
